---- MODULE Spec2Model ----
(***************************************************************************)
(* denbust: news scanning pipeline (fetch -> seen-filter -> classify ->    *)
(* group/unify -> commit), its persistent seen-URL store, the response     *)
(* parsing of the classifier and the title-similarity grouping.            *)
(***************************************************************************)
EXTENDS Integers, Sequences, FiniteSets, TLC

VARIABLES
    pc,            \* position of run_pipeline_async: idle, fetch, filter, classify, dedup, commit, done, raised, interrupted
    run,           \* number of pipeline runs started so far
    now,           \* wall clock (datetime.now), in whole ticks
    file,          \* the backing file of the seen store (config.store.path)
    seen,          \* SeenStore._seen of the live store object: url -> timestamp
    apiKey,        \* config.anthropic_api_key is set
    config,        \* the Config object handed to run_pipeline_async: its max_articles attribute
    world,         \* what the outside answers in this run: fetch outcome per source, API outcome per article
    replay,        \* this run observes the same outside answers as the run before it
    srcIdx,        \* fetch_all_sources: index of the next source
    all_articles,  \* fetch_all_sources: all_articles
    unseen,        \* run_pipeline_async: unseen_articles
    article_groups,  \* Deduplicator.group: the groups built, each the articles list of an ArticleGroup
    clsIdx,        \* classify_batch: index of the next article
    classified,    \* classify_batch: results
    relevant,      \* run_pipeline_async: relevant_articles
    unified,       \* run_pipeline_async: unified_items
    result,        \* the list run_pipeline_async returned (meaningful when pc = "done")
    lastSave,      \* how SeenStore.save ended in this run: none, ok, open_fail, write_fail, mkdir_fail
    loadRaised,    \* SeenStore.__init__ raised in this run
    classifyCalls, \* history: locators for which classify was invoked in this run
    fileAtStart,   \* history: the backing file when this run started
    seenAtStart,   \* history: the ledger as loaded at the start of this run
    reported,      \* history: locators in the sources of items returned by earlier runs
    saveFailed,    \* history: some earlier run's save did not succeed
    prev,          \* history: how the previous run ended
    stoppedAt,     \* history: the position at which this run was interrupted
    fileAccess,    \* history: the calls of SeenStore._load and SeenStore.save of this run, in order
    op,            \* store-level driver: the last SeenStore operation applied
    arg,           \* store-level driver: the argument of that operation
    ret            \* store-level driver: the value that operation returned

vars == <<pc, run, now, file, seen, apiKey, config, article_groups, world, replay, srcIdx, all_articles,
          unseen, clsIdx, classified, relevant, unified, result, lastSave,
          loadRaised, classifyCalls, fileAtStart, seenAtStart, reported,
          saveFailed, prev, stoppedAt, fileAccess, op, arg, ret>>

-----------------------------------------------------------------------------
(* Bounds of the model *)

MaxRuns == 3

-----------------------------------------------------------------------------
(* Generic helpers *)

Range(s) == {s[i] : i \in DOMAIN s}

Max(S) == CHOOSE x \in S : \A y \in S : y <= x

Min(S) == CHOOSE x \in S : \A y \in S : x <= y

RECURSIVE Flatten(_)
Flatten(ss) == IF ss = <<>> THEN <<>> ELSE Head(ss) \o Flatten(Tail(ss))

EmptyMap == [u \in {} |-> 0]

-----------------------------------------------------------------------------
(* Data model: data_models.py *)

Categories == {"brothel", "prostitution", "pimping", "trafficking", "enforcement", "not_relevant"}

SubCategories == {"closure", "opening", "arrest", "fine", "sentence", "rescue", "operation", "other"}

Confidences == {"high", "medium", "low"}

NoSub == "None"

\* str(HttpUrl) of the article locators used by the model
URLS == {"u1", "u2", "u3"}

\* RawArticle values the sources of the model can return
ArticleA1 == [url |-> "u1", title |-> <<"R", "a", "i", "d">>, snippet |-> <<"x", "x", "x">>,
              date |-> 2, source_name |-> "ynet"]

ArticleA2 == [url |-> "u2", title |-> <<"c", "o", "u", "r", "t">>, snippet |-> <<"y">>,
              date |-> 1, source_name |-> "ynet"]

ArticleA3 == [url |-> "u3", title |-> <<"r", "a", "i", "d", "s">>, snippet |-> <<"z">>,
              date |-> 1, source_name |-> "mako"]

ClassificationResult(rel, cat, sub, conf) ==
    [relevant |-> rel, category |-> cat, sub_category |-> sub, confidence |-> conf]

ClassifiedArticle(a, c) == [article |-> a, classification |-> c]

SourceReference(a) == [source_name |-> a.source_name, url |-> a.url]

-----------------------------------------------------------------------------
(* Seen store: store/seen.py *)

\* datetime.isoformat(): the timestamp written for clock value t
IsoFormat(t) == [iso |-> TRUE, t |-> t]

\* a string in the file that datetime.fromisoformat rejects
BadTimestamp == [iso |-> FALSE, t |-> 0]

\* a value in the file that is not a string (a JSON number, null, a list)
NonStringTimestamp == [iso |-> FALSE, t |-> 0, nonstring |-> TRUE]

\* SeenStore._parse_timestamp: datetime.fromisoformat raises TypeError on a
\* value that is not a string, and the except clause catches ValueError only
ParseRaises(ts) == "nonstring" \in DOMAIN ts

\* SeenStore._parse_timestamp
ParseTimestamp(ts) == IF ts.iso THEN ts.t ELSE 0

\* States of the backing file.  kind: missing (no such path), valid (a JSON
\* object; urls is its "urls" mapping), badjson (not parseable as JSON, as
\* after a write that failed half way), nonobject (parseable JSON that is
\* not an object, e.g. []), unreadable (open raises OSError), nodir (the
\* parent directory of the path does not exist).
FileOf(kind, urls) == [kind |-> kind, urls |-> urls]

\* mutant of Load: the file is never read, every store starts empty
LoadAlwaysEmpty(f) == [raised |-> FALSE, seen |-> EmptyMap]

\* SeenStore._load: the outcome of constructing a store on the file.
\* json.load of a non-object returns a list/str/number, and data.get raises
\* AttributeError, which the except clause (JSONDecodeError, OSError) lets through.
Load(f) ==
    CASE f.kind = "missing" -> [raised |-> FALSE, seen |-> EmptyMap]
      [] f.kind = "nodir" -> [raised |-> FALSE, seen |-> EmptyMap]
      [] f.kind = "valid" -> [raised |-> FALSE, seen |-> f.urls]
      [] f.kind = "badjson" -> [raised |-> FALSE, seen |-> EmptyMap]
      [] f.kind = "unreadable" -> [raised |-> FALSE, seen |-> EmptyMap]
      [] f.kind = "nonobject" -> [raised |-> TRUE, seen |-> EmptyMap]

SaveOutcomes == {"ok", "open_fail", "write_fail", "mkdir_fail"}

\* mutant of Save: the parent directory is not created, so on a path whose
\* directory is missing open fails and nothing is written
SaveWithoutMkdir(f, s, outcome) ==
    CASE f.kind = "nodir" -> f
      [] outcome = "ok" -> FileOf("valid", s)
      [] outcome = "open_fail" -> f
      [] outcome = "write_fail" -> FileOf("badjson", EmptyMap)
      [] outcome = "mkdir_fail" -> f

\* SeenStore.save: the file after save() of mapping s, by how the I/O went.
\* mkdir_fail: parent.mkdir raises (outside the try), nothing written;
\* open_fail: open(path, "w") raises OSError, caught, file untouched (a
\* missing parent directory has been created by then);
\* write_fail: json.dump raises OSError after open truncated the file.
Save(f, s, outcome) ==
    CASE outcome = "ok" -> FileOf("valid", s)
      [] outcome = "open_fail" -> IF f.kind = "nodir" THEN FileOf("missing", EmptyMap) ELSE f
      [] outcome = "write_fail" -> FileOf("badjson", EmptyMap)
      [] outcome = "mkdir_fail" -> f

\* whether save() raises to its caller
SaveRaises(outcome) == outcome = "mkdir_fail"

\* SeenStore.is_seen
IsSeen(s, url) == url \in DOMAIN s

\* mutant of StoreMarkSeen: the mapping is rebuilt from the new urls alone
StoreMarkSeenOverwrite(s, urls, t) == [u \in Range(urls) |-> IsoFormat(t)]

\* mutant of StoreMarkSeen: every url handed in gets the current timestamp
StoreMarkSeenRestamp(s, urls, t) ==
    [u \in DOMAIN s \cup Range(urls) |-> IF u \in Range(urls) THEN IsoFormat(t) ELSE s[u]]

\* SeenStore.mark_seen
StoreMarkSeen(s, urls, t) ==
    [u \in DOMAIN s \cup Range(urls) |-> IF u \in DOMAIN s THEN s[u] ELSE IsoFormat(t)]

\* mutant of FilterUnseen: the seen urls are returned instead
FilterUnseenInverted(s, urls) == SelectSeq(urls, LAMBDA u : IsSeen(s, u))

\* SeenStore.filter_unseen
FilterUnseen(s, urls) == SelectSeq(urls, LAMBDA u : ~IsSeen(s, u))

\* SeenStore.count
Count(s) == Cardinality(DOMAIN s)

\* SeenStore.clear
Clear(s) == EmptyMap

SecondsPerDay == 86400

\* mutant of PruneOlderThan: no early return for days <= 0
PruneOlderThanUnguarded(s, days, t) ==
    IF \E u \in DOMAIN s : ParseRaises(s[u]) THEN [seen |-> s, removed |-> 0, raised |-> TRUE]
    ELSE LET cutoff == t - (days * SecondsPerDay)
             kept == {u \in DOMAIN s : ParseTimestamp(s[u]) > cutoff}
         IN  [seen |-> [u \in kept |-> s[u]], removed |-> Count(s) - Cardinality(kept),
              raised |-> FALSE]

\* SeenStore.prune_older_than at clock t: the mapping kept, the count
\* returned, and whether the call raised (the comprehension raises before
\* self._seen is assigned)
PruneOlderThan(s, days, t) ==
    IF days <= 0 THEN [seen |-> s, removed |-> 0, raised |-> FALSE]
    ELSE IF \E u \in DOMAIN s : ParseRaises(s[u]) THEN [seen |-> s, removed |-> 0, raised |-> TRUE]
    ELSE LET cutoff == t - (days * SecondsPerDay)
             kept == {u \in DOMAIN s : ParseTimestamp(s[u]) > cutoff}
         IN  [seen |-> [u \in kept |-> s[u]], removed |-> Count(s) - Cardinality(kept),
              raised |-> FALSE]

-----------------------------------------------------------------------------
(* Title similarity and grouping: dedup/similarity.py *)

\* Deduplicator._threshold as a fraction (config default 0.7)
ThresholdNum == 7

ThresholdDen == 10

\* str.lower() on the characters the model's titles use
LowerChar(c) ==
    CASE c = "R" -> "r"
      [] c = "C" -> "c"
      [] c = "A" -> "a"
      [] OTHER -> c

Lower(t) == [i \in DOMAIN t |-> LowerChar(t[i])]

\* length of the common run of a from i and b from j, inside a[..ahi), b[..bhi)
RunLen(a, b, i, j, ahi, bhi) ==
    Max({k \in 0..Min({ahi - i, bhi - j}) : \A d \in 0..(k - 1) : a[i + d] = b[j + d]})

\* SequenceMatcher.find_longest_match on a[alo..ahi), b[blo..bhi), no junk:
\* the longest common block, the earliest in a and then the earliest in b
LongestMatch(a, b, alo, ahi, blo, bhi) ==
    LET pairs == (alo..(ahi - 1)) \X (blo..(bhi - 1))
        best == Max({0} \cup {RunLen(a, b, p[1], p[2], ahi, bhi) : p \in pairs})
        i == Min({p[1] : p \in {q \in pairs : RunLen(a, b, q[1], q[2], ahi, bhi) = best}})
        j == Min({p[2] : p \in {q \in pairs : q[1] = i /\ RunLen(a, b, q[1], q[2], ahi, bhi) = best}})
    IN  IF best = 0 THEN [i |-> alo, j |-> blo, k |-> 0] ELSE [i |-> i, j |-> j, k |-> best]

\* SequenceMatcher.get_matching_blocks: total size of the matching blocks
RECURSIVE MatchCount(_, _, _, _, _, _)
MatchCount(a, b, alo, ahi, blo, bhi) ==
    IF alo >= ahi \/ blo >= bhi THEN 0
    ELSE LET m == LongestMatch(a, b, alo, ahi, blo, bhi)
         IN  IF m.k = 0 THEN 0
             ELSE m.k + MatchCount(a, b, alo, m.i, blo, m.j)
                      + MatchCount(a, b, m.i + m.k, ahi, m.j + m.k, bhi)

\* mutant of RatioAtLeast: the comparison is strict
RatioAbove(t1, t2, num, den) ==
    LET total == Len(t1) + Len(t2)
        m == MatchCount(t1, t2, 1, Len(t1) + 1, 1, Len(t2) + 1)
    IN  IF total = 0 THEN den > num ELSE 2 * m * den > num * total

\* SequenceMatcher.ratio() >= threshold, with ratio = 2*M/T (1.0 when T = 0).
\* The float 2.0*M/T is the double nearest to the quotient, and so is the
\* literal 0.7, so the comparison of the floats agrees with the comparison
\* of the fractions for titles of any realistic length.
RatioAtLeast(t1, t2, num, den) ==
    LET total == Len(t1) + Len(t2)
        m == MatchCount(t1, t2, 1, Len(t1) + 1, 1, Len(t2) + 1)
    IN  IF total = 0 THEN den >= num ELSE 2 * m * den >= num * total

\* Deduplicator._is_similar
IsSimilar(c1, c2) ==
    RatioAtLeast(Lower(c1.article.title), Lower(c2.article.title), ThresholdNum, ThresholdDen)

\* mutant of KeyLess: the key is the snippet length alone
KeyLessLengthOnly(x, y) == Len(x.article.snippet) < Len(y.article.snippet)

\* the key of ArticleGroup.primary: (len(snippet), -date.timestamp())
KeyLess(x, y) ==
    \/ Len(x.article.snippet) < Len(y.article.snippet)
    \/ Len(x.article.snippet) = Len(y.article.snippet) /\ (0 - x.article.date) < (0 - y.article.date)

\* mutant of Primary: the last member with a maximal key
PrimaryLastOfTies(g) ==
    LET best == {i \in DOMAIN g : \A j \in DOMAIN g : ~KeyLess(g[i], g[j])}
    IN  g[CHOOSE i \in best : \A j \in best : j <= i]

\* ArticleGroup.primary: max() returns the first member with a maximal key
Primary(g) ==
    g[Min({i \in DOMAIN g : \A j \in DOMAIN g : ~KeyLess(g[i], g[j])})]

\* mutant of FindMatchingGroup: the article is compared with the member
\* each group was created with
FindMatchingGroupFirstMember(c, groups) ==
    LET hits == {k \in DOMAIN groups : IsSimilar(c, groups[k][1])}
    IN  IF hits = {} THEN 0 ELSE Min(hits)

\* Deduplicator._find_matching_group: index of the first matching group, 0 for None
FindMatchingGroup(c, groups) ==
    LET hits == {k \in DOMAIN groups : IsSimilar(c, Primary(groups[k]))}
    IN  IF hits = {} THEN 0 ELSE Min(hits)

\* mutant of GroupAdd: every article starts a group of its own
GroupAddAlwaysNew(groups, c) == Append(groups, <<c>>)

\* one iteration of the loop of Deduplicator.group
GroupAdd(groups, c) ==
    LET k == FindMatchingGroup(c, groups)
    IN  IF k # 0 THEN [groups EXCEPT ![k] = Append(@, c)] ELSE Append(groups, <<c>>)

RECURSIVE GroupFrom(_, _)
GroupFrom(groups, articles) ==
    IF articles = <<>> THEN groups ELSE GroupFrom(GroupAdd(groups, Head(articles)), Tail(articles))

\* mutant of Group: the loop starts at the second article
GroupSkipFirst(articles) == IF articles = <<>> THEN <<>> ELSE GroupFrom(<<>>, Tail(articles))

\* Deduplicator.group
Group(articles) == IF articles = <<>> THEN <<>> ELSE GroupFrom(<<>>, articles)

\* mutant of GroupToUnified: the primary is the only source listed
GroupToUnifiedPrimaryOnly(g) ==
    LET primary == Primary(g)
    IN  [headline |-> primary.article.title,
         summary |-> primary.article.snippet,
         sources |-> <<SourceReference(primary.article)>>,
         date |-> primary.article.date,
         category |-> primary.classification.category,
         sub_category |-> primary.classification.sub_category]

\* mutant of GroupToUnified: the fields come from the first member
GroupToUnifiedFromFirst(g) ==
    [headline |-> g[1].article.title,
     summary |-> g[1].article.snippet,
     sources |-> [i \in DOMAIN g |-> SourceReference(g[i].article)],
     date |-> g[1].article.date,
     category |-> g[1].classification.category,
     sub_category |-> g[1].classification.sub_category]

\* Deduplicator._group_to_unified
GroupToUnified(g) ==
    LET primary == Primary(g)
    IN  [headline |-> primary.article.title,
         summary |-> primary.article.snippet,
         sources |-> [i \in DOMAIN g |-> SourceReference(g[i].article)],
         date |-> primary.article.date,
         category |-> primary.classification.category,
         sub_category |-> primary.classification.sub_category]

\* mutant of Deduplicate: the items come out last group first
DeduplicateReversed(articles) ==
    LET groups == Group(articles)
    IN  [k \in DOMAIN groups |-> GroupToUnified(groups[Len(groups) + 1 - k])]

\* Deduplicator.deduplicate
Deduplicate(articles) ==
    LET groups == Group(articles) IN [k \in DOMAIN groups |-> GroupToUnified(groups[k])]

-----------------------------------------------------------------------------
(* Classifier: classifier/relevance.py *)

Absent == "absent"

\* What messages.create does for one article.  call: ok, api_error
\* (anthropic.APIError), error (any other exception).  content: none (empty
\* content list), nontext (first block is not a TextBlock), text.  The text
\* is fence (none, closed: ```...\n...\n```, open: no closing line, inline:
\* all on one line) around body (empty, garbage, array: JSON that is not an
\* object, object: a JSON object with the four keys below, Absent = no key).
Response(call, content, fence, body, rel, cat, sub, conf) ==
    [call |-> call, content |-> content, fence |-> fence, body |-> body,
     relevant |-> rel, category |-> cat, sub_category |-> sub, confidence |-> conf]

\* mutant of DefaultResult: the fallback carries the default confidence
DefaultResultMedium == ClassificationResult(FALSE, "not_relevant", NoSub, "medium")

DefaultResult == ClassificationResult(FALSE, "not_relevant", NoSub, "low")

Returned(c) == [raised |-> FALSE, value |-> c]

Raised == [raised |-> TRUE, value |-> DefaultResult]

\* the text classify() extracts from the response (lines 81-85)
ResponseText(r) ==
    IF r.content = "text" THEN r ELSE [r EXCEPT !.fence = "none", !.body = "empty"]

\* lines 126-130: what is handed to json.loads once a code fence is removed
Unfence(text) ==
    IF text.fence = "inline" THEN [text EXCEPT !.body = "empty"] ELSE text

\* CLASSIFICATION_PROMPT, lines 26-31: the sub-categories the prompt lists
\* under each category
ValidSubs(cat) ==
    CASE cat = "brothel" -> {"closure", "opening"}
      [] cat = "prostitution" -> {"arrest", "fine"}
      [] cat = "pimping" -> {"arrest", "sentence"}
      [] cat = "trafficking" -> {"arrest", "rescue", "sentence"}
      [] cat = "enforcement" -> {"operation", "other"}
      [] OTHER -> {}

\* mutant of ParseResponse: a sub-category outside the category's list is dropped
ParseResponseScoped(text) ==
    LET data == [text EXCEPT !.body = IF text.fence = "inline" THEN "empty" ELSE text.body]
        category == IF data.category \in Categories THEN data.category ELSE "not_relevant"
        sub_category == IF data.sub_category \in ValidSubs(category) THEN data.sub_category ELSE NoSub
        confidence == IF data.confidence \in Confidences THEN data.confidence ELSE "medium"
    IN  CASE data.body \in {"empty", "garbage"} ->
                [raised |-> FALSE, value |-> ClassificationResult(FALSE, "not_relevant", NoSub, "low")]
          [] data.body = "array" ->
                [raised |-> TRUE, value |-> ClassificationResult(FALSE, "not_relevant", NoSub, "low")]
          [] data.body = "object" ->
                [raised |-> FALSE,
                 value |-> ClassificationResult(data.relevant = "true", category, sub_category, confidence)]

\* Classifier._parse_response
ParseResponse(text) ==
    LET data == Unfence(text)
        category == IF data.category \in Categories THEN data.category ELSE "not_relevant"
        sub_category == IF data.sub_category \in SubCategories THEN data.sub_category ELSE NoSub
        confidence == IF data.confidence \in Confidences THEN data.confidence ELSE "medium"
    IN  CASE data.body \in {"empty", "garbage"} -> Returned(DefaultResult)
          [] data.body = "array" -> Raised
          [] data.body = "object" ->
                Returned(ClassificationResult(data.relevant = "true", category, sub_category, confidence))

\* Classifier.classify
Classify(r) ==
    CASE r.call = "api_error" -> Returned(DefaultResult)
      [] r.call = "error" -> Raised
      [] r.call = "ok" -> ParseResponse(ResponseText(r))

-----------------------------------------------------------------------------
(* Pipeline orchestration: pipeline.py *)

\* config.sources of the model: two enabled sources and a disabled one
ConfigSources ==
    << [name |-> "ynet", type |-> "rss", url |-> "https://ynet/feed", enabled |-> TRUE],
       [name |-> "walla", type |-> "rss", url |-> "https://walla/feed", enabled |-> FALSE],
       [name |-> "mako", type |-> "scraper", url |-> "", enabled |-> TRUE] >>

\* mutant of Creates: the enabled flag is not looked at
CreatesDisabledToo(cfg) ==
    \/ cfg.type = "rss" /\ cfg.url # ""
    \/ cfg.type = "scraper" /\ cfg.name \in {"mako", "maariv"}

\* the body of the loop of create_sources for one entry: is a source created
Creates(cfg) ==
    /\ cfg.enabled
    /\ \/ cfg.type = "rss" /\ cfg.url # ""
       \/ cfg.type = "scraper" /\ cfg.name \in {"mako", "maariv"}

\* create_sources: the names of the sources created, in configuration order
CreateSources(cfgs) ==
    LET kept == SelectSeq(cfgs, Creates) IN [i \in DOMAIN kept |-> kept[i].name]

Sources == CreateSources(ConfigSources)

FetchRaises == [raises |-> TRUE, articles |-> <<>>]

FetchReturns(as) == [raises |-> FALSE, articles |-> as]

\* what source.fetch can do in a run; an RSS feed may list a link twice
\* (RSSSource.fetch appends every entry that parses)
FetchOutcomes(name) ==
    IF name = "ynet"
    THEN {FetchRaises, FetchReturns(<<ArticleA1>>), FetchReturns(<<ArticleA1, ArticleA2>>),
          FetchReturns(<<ArticleA1, ArticleA1>>)}
    ELSE {FetchRaises, FetchReturns(<<>>), FetchReturns(<<ArticleA3>>)}

RespRelevant == Response("ok", "text", "closed", "object", "true", "brothel", "closure", "high")

RespIrrelevant == Response("ok", "text", "none", "object", "false", "not_relevant", Absent, "high")

RespApiError == Response("api_error", "none", "none", "empty", Absent, Absent, Absent, Absent)

RespArray == Response("ok", "text", "none", "array", Absent, Absent, Absent, Absent)

\* what the API can answer for an article in a pipeline run
PipelineResponses == {RespRelevant, RespIrrelevant, RespApiError, RespArray}

\* what the sources can do in one run: a fetch outcome for each source
FetchChoices ==
    {f \in [Range(Sources) -> UNION {FetchOutcomes(n) : n \in Range(Sources)}] :
        \A n \in Range(Sources) : f[n] \in FetchOutcomes(n)}

\* the API's answer for article url in world w, once it has been asked
Answered(w, url) == url \in DOMAIN w.verdict

\* world w after the API answered r for article url
WithAnswer(w, url, r) ==
    [w EXCEPT !.verdict = [u \in DOMAIN w.verdict \cup {url} |->
                              IF u \in DOMAIN w.verdict THEN w.verdict[u] ELSE r]]

\* mutant of FetchOne: a failing source discards what was fetched before it
FetchOneAbort(acc, outcome) == IF outcome.raises THEN <<>> ELSE acc \o outcome.articles

\* fetch_all_sources, one iteration: all_articles after the fetch of one source
FetchOne(acc, outcome) == IF outcome.raises THEN acc ELSE acc \o outcome.articles

\* mutant of FilterSeen: nothing is filtered out
FilterSeenNothing(articles, s) == articles

\* mutant of FilterSeen: only the first unseen article is kept
FilterSeenFirstOnly(articles, s) ==
    LET kept == SelectSeq(articles, LAMBDA a : ~IsSeen(s, a.url))
    IN  IF kept = <<>> THEN kept ELSE <<kept[1]>>

\* filter_seen
FilterSeen(articles, s) == SelectSeq(articles, LAMBDA a : ~IsSeen(s, a.url))

\* classify_articles, lines 126-130: keep the relevant ones
KeepRelevant(cs) == SelectSeq(cs, LAMBDA c : c.classification.relevant)

\* mutant of MarkSeenUrls: only the first source of each item is marked
MarkSeenUrlsFirstOnly(items) == [i \in DOMAIN items |-> items[i].sources[1].url]

\* mark_seen (pipeline), lines 157-160: the urls handed to the store
MarkSeenUrls(items) ==
    Flatten([i \in DOMAIN items |-> [j \in DOMAIN items[i].sources |-> items[i].sources[j].url]])

\* the locators in the sources of a list of UnifiedItems
SourceLocators(items) ==
    UNION {{items[i].sources[j].url : j \in DOMAIN items[i].sources} : i \in DOMAIN items}

\* the ceiling of the configurations that carry one
MaxArticles == 1

\* the Config of config.py: it declares no max_articles field, so reading the
\* attribute raises AttributeError
ConfigOfSource == [has_max_articles |-> FALSE, max_articles |-> 0]

\* the Config the unit tests describe: max_articles is a field (default 30)
ConfigOfTests == [has_max_articles |-> TRUE, max_articles |-> MaxArticles]

Configs == {ConfigOfSource, ConfigOfTests}

\* run_pipeline_async, lines 213-219: len(unseen_articles) > config.max_articles
\* raises when the attribute does not exist, logs a warning when the count
\* exceeds the ceiling, and does nothing else
VolumeCheck(n, cfg) ==
    IF ~cfg.has_max_articles THEN "raise"
    ELSE IF n > cfg.max_articles THEN "warn"
    ELSE "pass"

Terminal == {"idle", "done", "raised", "interrupted"}

Running == {"fetch", "filter", "classify", "dedup", "commit"}

NoPrev == [end |-> "none", save |-> "none", at |-> "none"]

storeDriver == <<op, arg, ret>>

history == <<classifyCalls, fileAtStart, seenAtStart, reported, saveFailed, prev, stoppedAt, fileAccess>>

TypeOK ==
    /\ pc \in Terminal \cup Running
    /\ run \in 0..MaxRuns
    /\ file.kind \in {"missing", "valid", "badjson", "nonobject", "unreadable", "nodir"}
    /\ DOMAIN seen \subseteq URLS
    /\ lastSave \in SaveOutcomes \cup {"none"}

\* the backing file before the first run
InitFiles ==
    {FileOf("missing", EmptyMap),
     FileOf("valid", [u \in {"u2"} |-> IsoFormat(0)]),
     FileOf("badjson", EmptyMap), FileOf("nonobject", EmptyMap)}

Init ==
    /\ pc = "idle"
    /\ run = 0
    /\ now = 0
    /\ file \in InitFiles
    /\ seen = EmptyMap
    /\ apiKey \in BOOLEAN
    /\ config \in Configs
    /\ world \in [fetch : FetchChoices, verdict : {EmptyMap}]
    /\ replay = FALSE
    /\ srcIdx = 1
    /\ all_articles = <<>>
    /\ unseen = <<>>
    /\ article_groups = <<>>
    /\ clsIdx = 1
    /\ classified = <<>>
    /\ relevant = <<>>
    /\ unified = <<>>
    /\ result = <<>>
    /\ lastSave = "none"
    /\ loadRaised = FALSE
    /\ classifyCalls = <<>>
    /\ fileAtStart = file
    /\ seenAtStart = EmptyMap
    /\ reported = {}
    /\ saveFailed = FALSE
    /\ prev = NoPrev
    /\ stoppedAt = "none"
    /\ fileAccess = <<>>
    /\ op = "none"
    /\ arg = "None"
    /\ ret = "None"

\* mutant of ApiKeyMissing: the credential check never fires
ApiKeyMissingNever(key) == FALSE

\* run_pipeline_async, line 178: not config.anthropic_api_key
ApiKeyMissing(key) == ~key

\* run_pipeline_async, lines 177-194: a new process starts a run: the
\* credential check, create_sources, and the construction of the seen store
StartRun ==
    /\ pc \in Terminal
    /\ run < MaxRuns
    /\ run' = run + 1
    /\ now' = now + 1
    /\ \E again \in BOOLEAN, key \in BOOLEAN, f \in FetchChoices :
        /\ again => (key = apiKey /\ f = world.fetch)
        /\ run = 0 => again
        /\ replay' = (again /\ run > 0)
        /\ apiKey' = key
        /\ world' = [fetch |-> f, verdict |-> IF again THEN world.verdict ELSE EmptyMap]
    /\ prev' = [end |-> pc, save |-> lastSave, at |-> stoppedAt]
    /\ stoppedAt' = "none"
    /\ reported' = reported \cup (IF pc = "done" THEN SourceLocators(result) ELSE {})
    /\ saveFailed' = (saveFailed \/ lastSave \in {"open_fail", "write_fail"})
    /\ fileAtStart' = file
    /\ classifyCalls' = <<>>
    /\ srcIdx' = 1
    /\ clsIdx' = 1
    /\ all_articles' = <<>>
    /\ unseen' = <<>>
    /\ article_groups' = <<>>
    /\ classified' = <<>>
    /\ relevant' = <<>>
    /\ unified' = <<>>
    /\ result' = <<>>
    /\ lastSave' = "none"
    /\ IF ApiKeyMissing(apiKey') \/ Sources = <<>>
       THEN /\ pc' = "done"
            /\ seen' = EmptyMap
            /\ loadRaised' = FALSE
            /\ fileAccess' = <<>>
       ELSE /\ pc' = IF Load(file).raised THEN "raised" ELSE "fetch"
            /\ seen' = Load(file).seen
            /\ loadRaised' = Load(file).raised
            /\ fileAccess' = <<"load">>
    /\ seenAtStart' = seen'
    /\ UNCHANGED <<file, config, storeDriver>>

\* fetch_all_sources, lines 84-91: the fetch of one source
FetchStep ==
    /\ pc = "fetch"
    /\ srcIdx <= Len(Sources)
    /\ all_articles' = FetchOne(all_articles, world.fetch[Sources[srcIdx]])
    /\ srcIdx' = srcIdx + 1
    /\ pc' = IF srcIdx = Len(Sources) THEN "filter" ELSE "fetch"
    /\ UNCHANGED <<run, now, file, seen, apiKey, config, article_groups, world, replay, unseen, clsIdx, classified,
                   relevant, unified, result, lastSave, loadRaised, history, storeDriver>>

\* run_pipeline_async, lines 203-219: the empty check, filter_seen, the volume check
FilterStep ==
    /\ pc = "filter"
    /\ unseen' = FilterSeen(all_articles, seen)
    /\ pc' = IF all_articles = <<>> \/ unseen' = <<>> THEN "done"
             ELSE IF VolumeCheck(Len(unseen'), config) = "raise" THEN "raised"
             ELSE "classify"
    /\ UNCHANGED <<run, now, file, seen, apiKey, config, article_groups, world, replay, srcIdx, all_articles, clsIdx,
                   classified, relevant, unified, result, lastSave, loadRaised, history, storeDriver>>

\* classify_batch, lines 108-110: one classify call; an exception leaves the run.
\* The API answers as it did before in this world, or for the first time.
ClassifyStep ==
    /\ pc = "classify"
    /\ clsIdx <= Len(unseen)
    /\ LET article == unseen[clsIdx] IN
       \E r \in PipelineResponses :
           /\ Answered(world, article.url) => r = world.verdict[article.url]
           /\ world' = WithAnswer(world, article.url, r)
           /\ classifyCalls' = Append(classifyCalls, article.url)
           /\ IF Classify(r).raised
              THEN /\ pc' = "raised"
                   /\ UNCHANGED <<classified, clsIdx>>
              ELSE /\ pc' = "classify"
                   /\ classified' = Append(classified, ClassifiedArticle(article, Classify(r).value))
                   /\ clsIdx' = clsIdx + 1
    /\ UNCHANGED <<run, now, file, seen, apiKey, config, article_groups, replay, srcIdx, all_articles, unseen,
                   relevant, unified, result, lastSave, loadRaised, fileAtStart, seenAtStart,
                   reported, saveFailed, prev, stoppedAt, fileAccess, storeDriver>>

\* mutant of ClassifyDone: with nothing relevant, the articles classified
\* are marked seen and the ledger is saved before the run returns
ClassifyDoneMarksAll ==
    /\ pc = "classify"
    /\ clsIdx > Len(unseen)
    /\ relevant' = KeepRelevant(classified)
    /\ pc' = IF relevant' = <<>> THEN "done" ELSE "dedup"
    /\ seen' = IF relevant' = <<>>
                THEN StoreMarkSeen(seen, [i \in DOMAIN unseen |-> unseen[i].url], now)
                ELSE seen
    /\ file' = IF relevant' = <<>> THEN Save(file, seen', "ok") ELSE file
    /\ UNCHANGED <<run, now, apiKey, config, article_groups, world, replay, srcIdx, all_articles, unseen,
                   clsIdx, classified, unified, result, lastSave, loadRaised, history, storeDriver>>

\* classify_articles, lines 126-130, and run_pipeline_async, lines 223-225
ClassifyDone ==
    /\ pc = "classify"
    /\ clsIdx > Len(unseen)
    /\ relevant' = KeepRelevant(classified)
    /\ pc' = IF relevant' = <<>> THEN "done" ELSE "dedup"
    /\ UNCHANGED <<run, now, file, seen, apiKey, config, article_groups, world, replay, srcIdx, all_articles, unseen,
                   clsIdx, classified, unified, result, lastSave, loadRaised, history, storeDriver>>

\* mutant of DedupStep: the grouped items are marked and saved at once
DedupStepEagerSave ==
    /\ pc = "dedup"
    /\ article_groups' = Group(relevant)
    /\ unified' = Deduplicate(relevant)
    /\ seen' = StoreMarkSeen(seen, MarkSeenUrls(unified'), now)
    /\ file' = Save(file, seen', "ok")
    /\ pc' = "commit"
    /\ UNCHANGED <<run, now, apiKey, config, world, replay, srcIdx, all_articles, unseen,
                   clsIdx, classified, relevant, result, lastSave, loadRaised, history, storeDriver>>

\* deduplicate_articles: Deduplicator.deduplicate, the groups and their items
DedupStep ==
    /\ pc = "dedup"
    /\ article_groups' = Group(relevant)
    /\ unified' = Deduplicate(relevant)
    /\ pc' = "commit"
    /\ UNCHANGED <<run, now, file, seen, apiKey, config, world, replay, srcIdx, all_articles, unseen,
                   clsIdx, classified, relevant, result, lastSave, loadRaised, history, storeDriver>>

\* mutant of CommitStep: the ledger is constructed anew from the file just saved
CommitStepReload ==
    /\ pc = "commit"
    /\ \E outcome \in SaveOutcomes :
        /\ file' = Save(file, StoreMarkSeen(seen, MarkSeenUrls(unified), now), outcome)
        /\ lastSave' = outcome
        /\ pc' = IF SaveRaises(outcome) THEN "raised" ELSE "done"
        /\ result' = IF SaveRaises(outcome) THEN <<>> ELSE unified
    /\ seen' = Load(file').seen
    /\ fileAccess' = fileAccess \o <<"save", "load">>
    /\ UNCHANGED <<run, now, apiKey, config, article_groups, world, replay, srcIdx, all_articles, unseen, clsIdx,
                   classified, relevant, unified, loadRaised, classifyCalls, fileAtStart,
                   seenAtStart, reported, saveFailed, prev, stoppedAt, storeDriver>>

\* mark_seen (pipeline): store.mark_seen, store.save, then the return of the run
CommitStep ==
    /\ pc = "commit"
    /\ seen' = StoreMarkSeen(seen, MarkSeenUrls(unified), now)
    /\ \E outcome \in SaveOutcomes :
        /\ file' = Save(file, seen', outcome)
        /\ lastSave' = outcome
        /\ pc' = IF SaveRaises(outcome) THEN "raised" ELSE "done"
        /\ result' = IF SaveRaises(outcome) THEN <<>> ELSE unified
    /\ fileAccess' = Append(fileAccess, "save")
    /\ UNCHANGED <<run, now, apiKey, config, article_groups, world, replay, srcIdx, all_articles, unseen, clsIdx,
                   classified, relevant, unified, loadRaised, classifyCalls, fileAtStart,
                   seenAtStart, reported, saveFailed, prev, stoppedAt, storeDriver>>

\* the process is stopped (signal, crash) at a suspend point before the
\* commit: everything it held in memory is gone
Interrupt ==
    /\ pc \in Running
    /\ pc' = "interrupted"
    /\ stoppedAt' = pc
    /\ seen' = EmptyMap
    /\ srcIdx' = 1
    /\ clsIdx' = 1
    /\ all_articles' = <<>>
    /\ unseen' = <<>>
    /\ article_groups' = <<>>
    /\ classified' = <<>>
    /\ relevant' = <<>>
    /\ unified' = <<>>
    /\ UNCHANGED <<run, now, file, apiKey, config, world, replay, result, lastSave, loadRaised,
                   classifyCalls, fileAtStart, seenAtStart, reported, saveFailed, prev,
                   fileAccess, storeDriver>>

Next ==
    \/ StartRun
    \/ FetchStep
    \/ FilterStep
    \/ ClassifyStep
    \/ ClassifyDone
    \/ DedupStep
    \/ CommitStep
    \/ Interrupt

Spec == Init /\ [][Next]_vars

-----------------------------------------------------------------------------
(* Properties of the pipeline, checked under Spec *)

C3_NoPartialCommit ==
    /\ [](((pc \in Running \cup {"interrupted"}) \/ (pc = "raised" /\ lastSave = "none"))
            => file = fileAtStart)
    /\ [][((pc = "interrupted" \/ (pc = "raised" /\ lastSave = "none" /\ ~loadRaised)) /\ pc' = "fetch")
            => seenAtStart' = seenAtStart]_vars

\* a run interrupted after grouping, right before the commit, left the file alone
C3_Witness ==
    /\ pc = "interrupted"
    /\ stoppedAt = "commit"
    /\ Len(classifyCalls) > 0
    /\ file = fileAtStart

\* C4: commit content - after a run that reached the commit step the ledger
\* holds exactly the locators loaded at run start and the locators of the
\* sources of the UnifiedItems the run computed and returns.
C4_CommitContent ==
    lastSave # "none" =>
        /\ DOMAIN seen = DOMAIN seenAtStart \cup SourceLocators(unified)
        /\ pc = "done" => result = unified

\* a committed run that also classified an article it did not mark, on a
\* ledger that was not empty at the start
C4_Witness ==
    /\ pc = "done"
    /\ lastSave # "none"
    /\ seenAtStart # EmptyMap
    /\ \E i \in DOMAIN classifyCalls : classifyCalls[i] \notin DOMAIN seen

\* C5: the classifier is invoked only for articles whose locator is absent
\* from the ledger as loaded at run start.
C5_FilterBeforeClassify ==
    \A i \in DOMAIN classifyCalls : classifyCalls[i] \notin DOMAIN seenAtStart

\* a run fetched an article that is already seen and classified another one
C5_Witness ==
    /\ Len(classifyCalls) > 0
    /\ \E i \in DOMAIN all_articles : all_articles[i].url \in DOMAIN seenAtStart

\* C6: if persisting the ledger fails at the commit step (directory cannot be
\* created, file cannot be written) the run still returns the items it computed.
C6_SaveFailureStillReturns ==
    lastSave \in {"open_fail", "write_fail", "mkdir_fail"} => (pc = "done" /\ result = unified)

\* C7: constructing the store raises for no state of the backing file, and
\* for every file that is not a valid record the ledger starts empty.
C7_LoadNeverFails ==
    /\ ~loadRaised
    /\ (pc \in Running /\ fileAtStart.kind # "valid") => seenAtStart = EmptyMap

\* an outcome of the API call that the classifier treats as an internal failure
InternalFailure(r) ==
    \/ r.call # "ok"
    \/ r.content # "text"
    \/ r.body # "object"

\* C9: classify returns a Classification for every outcome of the API call and
\* raises nothing; on an internal failure the value is relevant=false with
\* confidence low, and no run is left because of a classify call.
C9_ClassifierNeverRaises ==
    /\ \A u \in DOMAIN world.verdict :
          /\ ~Classify(world.verdict[u]).raised
          /\ InternalFailure(world.verdict[u]) =>
                /\ Classify(world.verdict[u]).value.relevant = FALSE
                /\ Classify(world.verdict[u]).value.confidence = "low"
    /\ pc = "raised" => (loadRaised \/ lastSave = "mkdir_fail")

\* the concatenation, in source order, of the lists of the sources that did not raise
ExpectedFetch ==
    Flatten([i \in DOMAIN Sources |->
                IF world.fetch[Sources[i]].raises THEN <<>> ELSE world.fetch[Sources[i]].articles])

\* C10: whatever subset of sources raises, fetch_all_sources does not raise and
\* returns the concatenation, in source order, of the lists of the sources that
\* did not raise; the run goes on.
C10_FetchTolerance ==
    /\ []((pc \in {"filter", "classify", "dedup", "commit"}) => all_articles = ExpectedFetch)
    /\ [][pc = "fetch" => pc' \in {"fetch", "filter", "interrupted"}]_vars

\* one source raised, another returned articles, and the run went on with them
C10_Witness ==
    /\ pc = "classify"
    /\ \E n \in Range(Sources) : world.fetch[n].raises
    /\ all_articles # <<>>
    /\ all_articles = ExpectedFetch

\* r is xs restricted to the positions in idx, in the order of xs
IsRestriction(r, xs, idx) ==
    /\ Len(r) = Cardinality(idx)
    /\ \A i \in idx : r[Cardinality({j \in idx : j <= i})] = xs[i]

\* every article fetched in this run carries a locator the ledger held when
\* the run loaded it
AllFetchedSeen ==
    \A i \in DOMAIN all_articles : all_articles[i].url \in DOMAIN seenAtStart

\* C11: when every fetched article's locator is already seen, the run never
\* reaches the classifier, and it ends with an empty result, no classifier
\* call, and the in-memory ledger and the backing file as they were at the
\* start of the run.
C11_ShortCircuitNothingNew ==
    /\ []((pc \in {"classify", "dedup", "commit"}) => ~AllFetchedSeen)
    /\ []((pc = "done" /\ AllFetchedSeen)
            => /\ result = <<>>
               /\ classifyCalls = <<>>
               /\ seen = seenAtStart
               /\ file = fileAtStart
               /\ lastSave = "none")
    /\ [][(pc = "filter" /\ AllFetchedSeen) => pc' \in {"done", "interrupted"}]_vars

\* a run fetched articles, all of them seen before, and ended
C11_Witness ==
    /\ pc = "done"
    /\ all_articles # <<>>
    /\ AllFetchedSeen
    /\ seen # EmptyMap

\* C12: when the API credential is absent, the run ends with an empty result
\* before any source is fetched and before any classifier call; no store is
\* constructed, no locator is marked and the backing file is not written.
C12_NoCredentialAbort ==
    ~apiKey => /\ pc \in {"idle", "done"}
               /\ srcIdx = 1
               /\ all_articles = <<>>
               /\ classifyCalls = <<>>
               /\ result = <<>>
               /\ seen = EmptyMap
               /\ lastSave = "none"
               /\ file = fileAtStart

\* a run without the credential ended, after an earlier run had written the ledger
C12_Witness ==
    /\ pc = "done"
    /\ ~apiKey
    /\ prev.save = "ok"
    /\ file.kind = "valid"

\* the locators of a list of articles, in order
Locators(articles) == [i \in DOMAIN articles |-> articles[i].url]

\* C13: the volume ceiling is advisory - a run that reaches the volume check
\* with unseen articles, however many, goes on to classify them; none is
\* dropped: every unseen article is classified, in order, and the result is
\* the unification of the relevant ones, whatever the ceiling.
C13_CeilingAdvisory ==
    /\ [][(pc = "filter" /\ unseen' # <<>>) => pc' = "classify"]_vars
    /\ []((pc \in {"dedup", "commit", "done"} /\ unseen # <<>>)
            => classifyCalls = Locators(unseen))
    /\ []((pc = "done" /\ unseen # <<>>) => result = Deduplicate(KeepRelevant(classified)))

\* C16: the pipeline's seen-filter agrees with the ledger's filter_unseen -
\* the articles it returns are the fetched articles at the positions whose
\* locator filter_unseen returns for the list of all fetched locators, in the
\* same order, and the store (ledger and file) is left unchanged.
C16_FilterSeenAgrees ==
    [][(pc = "filter" /\ pc' # "interrupted")
        => /\ Locators(unseen') = FilterUnseen(seen, Locators(all_articles))
           /\ IsRestriction(unseen', all_articles,
                  {i \in DOMAIN all_articles :
                      all_articles[i].url \in Range(FilterUnseen(seen, Locators(all_articles)))})
           /\ seen' = seen
           /\ file' = file]_vars

\* the filter dropped a seen article and kept two unseen ones
C16_Witness ==
    /\ pc = "classify"
    /\ clsIdx = 1
    /\ Len(unseen) = 2
    /\ Len(all_articles) = 3

\* C21: every group built during a pipeline run is non-empty, and no two
\* members of the same group have the same locator.
C21_GroupInvariant ==
    \A k \in DOMAIN article_groups :
        /\ article_groups[k] # <<>>
        /\ \A i, j \in DOMAIN article_groups[k] :
              i # j => article_groups[k][i].article.url # article_groups[k][j].article.url

\* C25: classify_batch invokes classify exactly once per input article, one
\* call at a time in input order, every call returns, and the list returned
\* has the length of the input, its i-th element pairing the i-th article
\* with its classification; classify_articles keeps exactly the elements
\* flagged relevant, in the same relative order.
C25_ClassifyOrderAndCount ==
    /\ [][pc = "classify" => pc' \in {"classify", "dedup", "done", "interrupted"}]_vars
    /\ [](pc = "classify"
            => /\ Len(classifyCalls) = clsIdx - 1
               /\ classifyCalls = SubSeq(Locators(unseen), 1, Len(classifyCalls)))
    /\ []((pc \in {"dedup", "commit"} \/ (pc = "done" /\ unseen # <<>>))
            => /\ classifyCalls = Locators(unseen)
               /\ Len(classified) = Len(unseen)
               /\ \A i \in DOMAIN classified :
                     /\ classified[i].article = unseen[i]
                     /\ classified[i].classification = Classify(world.verdict[unseen[i].url]).value
               /\ IsRestriction(relevant, classified,
                                {i \in DOMAIN classified : classified[i].classification.relevant}))

\* position in the input of the deduplicator of the first article with the
\* locator of a source entry
InputPosition(ref) == Min({i \in DOMAIN relevant : relevant[i].article.url = ref.url})

\* C28: the UnifiedItems a run returns are in the order their groups were
\* created: one item per group, the first source of an item is the member
\* of its group that comes first in the classified input, and the items are
\* ordered by the position in that input of their first source.
C28_EmitOrder ==
    (pc = "done" /\ result # <<>>)
        => /\ Len(result) = Len(article_groups)
           /\ \A k \in DOMAIN result :
                 /\ result[k].sources[1] = SourceReference(article_groups[k][1].article)
                 /\ \A n \in DOMAIN result[k].sources :
                       InputPosition(result[k].sources[1]) <= InputPosition(result[k].sources[n])
           /\ \A k, l \in DOMAIN result :
                 k < l => InputPosition(result[k].sources[1]) < InputPosition(result[l].sources[1])

\* a run returned two items, the first of which gained its second member
\* after the group of the second item was created
C28_Witness ==
    /\ pc = "done"
    /\ Len(relevant) = 3
    /\ Len(result) = 2
    /\ Len(result[1].sources) = 2
    /\ InputPosition(result[1].sources[2]) > InputPosition(result[2].sources[1])

\* the number of calls of the given kind in the file accesses of this run
Accesses(kind) == Cardinality({i \in DOMAIN fileAccess : fileAccess[i] = kind})

\* C29 as stated: within every run the backing file of the ledger is read
\* exactly once.
C29_ReadOnceAsStated ==
    (run > 0 /\ pc \in Terminal) => Accesses("load") = 1

\* C29 amended: a run that stops at the credential check or the sources
\* check constructs no ledger and never reads or writes the backing file;
\* every other run reads it exactly once, when the ledger is constructed
\* and before anything else, and writes it at most once, at the commit step
\* after grouping; no read follows the write, and no step between the
\* construction and the commit (is_seen, mark_seen included) touches the file.
C29_AccessPattern ==
    /\ [](fileAccess \in {<<>>, <<"load">>, <<"load", "save">>})
    /\ []((run > 0 /\ (ApiKeyMissing(apiKey) \/ Sources = <<>>)) => fileAccess = <<>>)
    /\ []((run > 0 /\ ~ApiKeyMissing(apiKey) /\ Sources # <<>>) => Accesses("load") = 1)
    /\ []("save" \in Range(fileAccess)
            => /\ pc \in {"done", "raised"}
               /\ lastSave # "none"
               /\ unified = Deduplicate(relevant))
    /\ [][fileAccess' # fileAccess => (pc \in Terminal \/ pc = "commit")]_vars
    /\ [][file' # file => (pc = "commit" /\ lastSave' \notin {"none", "mkdir_fail"})]_vars

\* a run read the file at construction and wrote it at the commit
C29_Witness ==
    /\ pc = "done"
    /\ fileAccess = <<"load", "save">>
    /\ lastSave = "ok"
    /\ file # fileAtStart
    /\ result # <<>>

\* how many times x occurs in the sequence xs
Occurrences(xs, x) == Cardinality({i \in DOMAIN xs : xs[i] = x})

\* the source entries of the items, item by item
SourceEntriesOf(items) == Flatten([i \in DOMAIN items |-> items[i].sources])

\* C35: each input article of deduplicate contributes exactly one source
\* entry to exactly one returned UnifiedItem, so the multiset of (source
\* name, locator) entries over all returned items equals that of the input
\* articles; in a run the input is exactly the unseen articles classified
\* relevant, in order, so every one of them is emitted and no irrelevant or
\* already-seen article is.
C35_Conservation ==
    (pc \in {"commit", "done"} /\ unseen # <<>>)
        => LET emitted == SourceEntriesOf(IF pc = "done" THEN result ELSE unified)
               input == [i \in DOMAIN relevant |-> SourceReference(relevant[i].article)]
           IN  /\ Len(emitted) = Len(input)
               /\ \A r \in Range(emitted) \cup Range(input) :
                     Occurrences(emitted, r) = Occurrences(input, r)
               /\ Len(classified) = Len(unseen)
               /\ IsRestriction(relevant, classified,
                                {i \in DOMAIN classified : classified[i].classification.relevant})
               /\ \A i \in DOMAIN classified : classified[i].article = unseen[i]
               /\ \A i \in DOMAIN unseen : ~IsSeen(seenAtStart, unseen[i].url)
               /\ IsRestriction(unseen, all_articles,
                                {i \in DOMAIN all_articles : ~IsSeen(seenAtStart, all_articles[i].url)})

\* a run returned fewer items than it had relevant articles, with every
\* article among the sources, while an irrelevant article was left out
C35_Witness ==
    /\ pc = "done"
    /\ Len(relevant) = 2
    /\ Len(classified) = 3
    /\ Len(result) = 1
    /\ Len(SourceEntriesOf(result)) = 2

\* the run has returned after classifying its unseen articles, none of
\* which was flagged relevant
NoneRelevant ==
    /\ pc = "done"
    /\ unseen # <<>>
    /\ Len(classified) = Len(unseen)
    /\ \A i \in DOMAIN classified : ~classified[i].classification.relevant

\* C37: when none of the unseen articles is classified relevant, the run
\* returns an empty list and neither marks any locator seen nor writes the
\* backing file, so the ledger the next run loads is the same, does not
\* hold those locators, and filters the same articles as unseen again.
C37_NothingRelevantNoCommit ==
    /\ [](NoneRelevant
            => /\ result = <<>>
               /\ seen = seenAtStart
               /\ file = fileAtStart
               /\ lastSave = "none"
               /\ "save" \notin Range(fileAccess)
               /\ \A i \in DOMAIN unseen : ~IsSeen(seen, unseen[i].url))
    /\ [][(NoneRelevant /\ run' = run + 1 /\ pc' = "fetch")
            => /\ seen' = seen
               /\ \A i \in DOMAIN unseen : ~IsSeen(seen', unseen[i].url)
               /\ FilterSeen(all_articles, seen') = unseen]_vars
    /\ []((replay /\ prev.end = "done" /\ prev.save = "none" /\ NoneRelevant)
            => classifyCalls = [i \in DOMAIN unseen |-> unseen[i].url])

\* the run after one that found nothing relevant saw the same answers,
\* classified the same articles again and found nothing relevant either
C37_Witness ==
    /\ NoneRelevant
    /\ run = 2
    /\ replay
    /\ prev.end = "done"
    /\ prev.save = "none"
    /\ classifyCalls # <<>>
    /\ file = fileAtStart

-----------------------------------------------------------------------------
(* The seen store driven operation by operation: store/seen.py *)

MaxTicks == 1

\* the day of the clock when the first store object is constructed
StartDay == 50

\* the backing file when the first store object is constructed
StoreInitFiles ==
    InitFiles \cup {FileOf("valid", EmptyMap), FileOf("unreadable", EmptyMap),
                    FileOf("nodir", EmptyMap),
                    FileOf("valid", [u \in {"u1", "u2"} |-> IF u = "u1" THEN BadTimestamp ELSE IsoFormat(0)]),
                    FileOf("valid", [u \in {"u1", "u2"} |->
                        IF u = "u1" THEN IsoFormat(10 * SecondsPerDay) ELSE IsoFormat(40 * SecondsPerDay)]),
                    FileOf("valid", [u \in {"u1", "u2"} |->
                        IF u = "u1" THEN NonStringTimestamp ELSE IsoFormat(40 * SecondsPerDay)])}

\* url lists handed to mark_seen and filter_unseen
UrlLists == {<<>>, <<"u1">>, <<"u2", "u1">>, <<"u3", "u1", "u3">>}

\* arguments handed to prune_older_than
PruneDays == {-1, 0, 1, 30}

pipelineVars ==
    <<pc, run, apiKey, config, article_groups, world, replay, srcIdx, all_articles, unseen, clsIdx, classified,
      relevant, unified, result, history>>

InitStore ==
    /\ pc = "idle"
    /\ run = 0
    /\ now = StartDay * SecondsPerDay
    /\ file \in StoreInitFiles
    /\ seen = Load(file).seen
    /\ loadRaised = Load(file).raised
    /\ apiKey = TRUE
    /\ config = ConfigOfSource
    /\ world = [fetch |-> [n \in Range(Sources) |-> FetchRaises], verdict |-> EmptyMap]
    /\ replay = FALSE
    /\ srcIdx = 1
    /\ all_articles = <<>>
    /\ unseen = <<>>
    /\ article_groups = <<>>
    /\ clsIdx = 1
    /\ classified = <<>>
    /\ relevant = <<>>
    /\ unified = <<>>
    /\ result = <<>>
    /\ lastSave = "none"
    /\ classifyCalls = <<>>
    /\ fileAtStart = file
    /\ seenAtStart = seen
    /\ reported = {}
    /\ saveFailed = FALSE
    /\ prev = NoPrev
    /\ stoppedAt = "none"
    /\ fileAccess = <<>>
    /\ op = "construct"
    /\ arg = "None"
    /\ ret = "None"

\* SeenStore(path): a new store object on the same backing file
Construct ==
    /\ op' = "construct"
    /\ arg' = "None"
    /\ ret' = "None"
    /\ seen' = Load(file).seen
    /\ loadRaised' = Load(file).raised
    /\ UNCHANGED <<now, file, lastSave, pipelineVars>>

\* store.is_seen(url)
DoIsSeen ==
    /\ ~loadRaised
    /\ \E u \in URLS :
        /\ op' = "is_seen"
        /\ arg' = u
        /\ ret' = IsSeen(seen, u)
    /\ UNCHANGED <<now, file, seen, loadRaised, lastSave, pipelineVars>>

\* store.mark_seen(urls)
DoMarkSeen ==
    /\ ~loadRaised
    /\ \E urls \in UrlLists :
        /\ op' = "mark_seen"
        /\ arg' = urls
        /\ ret' = "None"
        /\ seen' = StoreMarkSeen(seen, urls, now)
    /\ UNCHANGED <<now, file, loadRaised, lastSave, pipelineVars>>

\* store.filter_unseen(urls)
DoFilterUnseen ==
    /\ ~loadRaised
    /\ \E urls \in UrlLists :
        /\ op' = "filter_unseen"
        /\ arg' = urls
        /\ ret' = FilterUnseen(seen, urls)
    /\ UNCHANGED <<now, file, seen, loadRaised, lastSave, pipelineVars>>

\* store.save()
DoSave ==
    /\ ~loadRaised
    /\ \E outcome \in SaveOutcomes :
        /\ op' = "save"
        /\ arg' = "None"
        /\ ret' = IF SaveRaises(outcome) THEN "raised" ELSE "None"
        /\ lastSave' = outcome
        /\ file' = Save(file, seen, outcome)
    /\ UNCHANGED <<now, seen, loadRaised, pipelineVars>>

\* store.clear()
DoClear ==
    /\ ~loadRaised
    /\ op' = "clear"
    /\ arg' = "None"
    /\ ret' = "None"
    /\ seen' = Clear(seen)
    /\ UNCHANGED <<now, file, loadRaised, lastSave, pipelineVars>>

\* store.prune_older_than(days)
DoPrune ==
    /\ ~loadRaised
    /\ \E days \in PruneDays :
        /\ op' = "prune"
        /\ arg' = days
        /\ ret' = [raised |-> PruneOlderThan(seen, days, now).raised,
                    removed |-> PruneOlderThan(seen, days, now).removed]
        /\ seen' = PruneOlderThan(seen, days, now).seen
    /\ UNCHANGED <<now, file, loadRaised, lastSave, pipelineVars>>

\* a day passes
Tick ==
    /\ now < (StartDay + MaxTicks) * SecondsPerDay
    /\ now' = now + SecondsPerDay
    /\ UNCHANGED <<file, seen, loadRaised, lastSave, op, arg, ret, pipelineVars>>

NextStore ==
    \/ Construct
    \/ DoIsSeen
    \/ DoMarkSeen
    \/ DoFilterUnseen
    \/ DoSave
    \/ DoClear
    \/ DoPrune
    \/ Tick

SpecStore == InitStore /\ [][NextStore]_vars

-----------------------------------------------------------------------------
(* Properties of the seen store, checked under SpecStore *)

\* C8 as stated: under is_seen, mark_seen, filter_unseen, save and reloading
\* from the same backing file, a locator present in the ledger stays present
\* (only prune_older_than and clear remove).
C8_MonotoneAsStated ==
    [][op' \notin {"clear", "prune"} => DOMAIN seen \subseteq DOMAIN seen']_vars

\* C8 amended: is_seen, mark_seen, filter_unseen and save never remove a
\* locator from the ledger; a store reloaded from the backing file holds
\* exactly the locators of the file's mapping, so a locator survives a reload
\* only if a successful save persisted it (a save that succeeds writes the
\* whole ledger).
C8_MonotoneUntilReload ==
    /\ [][op' \in {"is_seen", "mark_seen", "filter_unseen", "save"}
            => DOMAIN seen \subseteq DOMAIN seen']_vars
    /\ [][(op' = "save" /\ lastSave' = "ok") => (file'.kind = "valid" /\ file'.urls = seen)]_vars
    /\ [][(op' = "construct" /\ ~loadRaised')
            => DOMAIN seen' = (IF file.kind = "valid" THEN DOMAIN file.urls ELSE {})]_vars

\* a locator marked after the first day, saved, and still present after a reload
C8_Witness ==
    /\ op = "construct"
    /\ lastSave = "ok"
    /\ \E u \in DOMAIN seen : seen[u].iso /\ seen[u].t > StartDay * SecondsPerDay

\* C14: mark_seen is idempotent - it keeps every entry of the ledger with the
\* timestamp it had, adds exactly the locators handed in that were absent, and
\* a call whose locators are all present leaves the ledger (and its count) as
\* it was: the first-seen timestamp of a locator is never overwritten.
C14_MarkSeenIdempotent ==
    [][op' = "mark_seen"
        => /\ \A u \in DOMAIN seen : u \in DOMAIN seen' /\ seen'[u] = seen[u]
           /\ DOMAIN seen' = DOMAIN seen \cup Range(arg')
           /\ (Range(arg') \subseteq DOMAIN seen => (seen' = seen /\ Count(seen') = Count(seen)))]_vars

\* mark_seen was called on a later day with a locator first seen earlier,
\* and the ledger still holds the earlier timestamp
C14_Witness ==
    /\ op = "mark_seen"
    /\ \E u \in Range(arg) : u \in DOMAIN seen /\ seen[u].iso /\ seen[u].t < now

\* C15: filter_unseen returns exactly the input elements that are not in the
\* ledger, each occurrence kept, in input order (as sets: the input minus the
\* ledger), and it modifies neither the ledger nor the backing file.
C15_FilterUnseenExact ==
    [][op' = "filter_unseen"
        => /\ IsRestriction(ret', arg', {i \in DOMAIN arg' : arg'[i] \notin DOMAIN seen})
           /\ Range(ret') = Range(arg') \ DOMAIN seen
           /\ seen' = seen
           /\ file' = file]_vars

\* filter_unseen dropped a seen locator from the middle of its input and
\* returned the two unseen occurrences around it
C15_Witness ==
    /\ op = "filter_unseen"
    /\ Len(ret) = 2
    /\ Len(arg) = 3
    /\ arg[2] \in DOMAIN seen

\* C17 as stated: prune_older_than(days) never raises, removes exactly the
\* entries whose timestamp is older than now minus days together with the
\* entries whose timestamp cannot be parsed, keeps every other entry as it
\* was, and returns the number of entries removed.
C17_PruneExact ==
    [][(op' = "prune" /\ now' = now)
        => /\ ~ret'.raised
           /\ LET old == {u \in DOMAIN seen :
                            \/ ~seen[u].iso
                            \/ seen[u].t < now - (arg' * SecondsPerDay)}
              IN  /\ DOMAIN seen' = DOMAIN seen \ old
                  /\ \A u \in DOMAIN seen' : seen'[u] = seen[u]
                  /\ ret'.removed = Cardinality(old)]_vars

C38_PruneNonPositiveNoOp ==
    [][(op' = "prune" /\ arg' <= 0)
        => /\ seen' = seen
           /\ ret'.removed = 0
           /\ ~ret'.raised
           /\ file' = file]_vars

\* prune_older_than(0) was applied to a ledger holding an entry 40 days old
\* and an entry whose timestamp cannot be parsed, and both are still there
C38_Witness ==
    /\ op = "prune"
    /\ arg = 0
    /\ ret.removed = 0
    /\ \E u \in DOMAIN seen : seen[u].iso /\ seen[u].t < now - (30 * SecondsPerDay)
    /\ \E u \in DOMAIN seen : ~seen[u].iso

-----------------------------------------------------------------------------
(* The deduplicator driven article by article: dedup/similarity.py *)

MaxGroupInput == 3

\* a snippet of n characters
Snippet(n) == [i \in 1..n |-> "x"]

\* a relevant article as classify_articles hands it to the deduplicator; the
\* date is the day of February 2026
Relevant(url, title, n, day, source, cat, sub) ==
    ClassifiedArticle([url |-> url, title |-> title, snippet |-> Snippet(n), date |-> day,
                       source_name |-> source],
                      ClassificationResult(TRUE, cat, sub, "high"))

\* the articles the deduplicator is fed: three titles within the threshold
\* of each other, a fourth with the locator of the second, a fifth unrelated,
\* a pair with alike titles and excerpts of 300 and 50 characters, and one
\* whose title is within the threshold of "raids" but not of "raid"
GroupPool ==
    {Relevant("g1", <<"r", "a", "i", "d">>, 5, 15, "ynet", "brothel", "closure"),
     Relevant("g2", <<"r", "a", "i", "d">>, 40, 15, "walla", "prostitution", "arrest"),
     Relevant("g3", <<"r", "a", "i", "d", "s">>, 40, 14, "mako", "pimping", "sentence"),
     Relevant("g2", <<"R", "a", "i", "d">>, 40, 14, "maariv", "trafficking", NoSub),
     Relevant("g5", <<"c", "o", "u", "r", "t">>, 5, 14, "ynet", "enforcement", "other"),
     Relevant("g6", <<"r", "a", "i", "d">>, 300, 14, "ynet", "brothel", "closure"),
     Relevant("g7", <<"r", "a", "i", "d", "s">>, 50, 14, "walla", "brothel", "closure"),
     Relevant("g8", <<"i", "d", "s">>, 5, 14, "walla", "pimping", "arrest")}

groupFrame ==
    <<pc, run, now, file, seen, apiKey, config, world, replay, srcIdx, all_articles, unseen,
      clsIdx, classified, result, lastSave, loadRaised, history>>

\* a Deduplicator just created, no article handed to it yet
InitGroup ==
    /\ pc = "idle"
    /\ run = 0
    /\ now = 0
    /\ file = FileOf("missing", EmptyMap)
    /\ seen = EmptyMap
    /\ loadRaised = FALSE
    /\ apiKey = TRUE
    /\ config = ConfigOfSource
    /\ world = [fetch |-> [n \in Range(Sources) |-> FetchRaises], verdict |-> EmptyMap]
    /\ replay = FALSE
    /\ srcIdx = 1
    /\ all_articles = <<>>
    /\ unseen = <<>>
    /\ article_groups = <<>>
    /\ clsIdx = 1
    /\ classified = <<>>
    /\ relevant = <<>>
    /\ unified = <<>>
    /\ result = <<>>
    /\ lastSave = "none"
    /\ classifyCalls = <<>>
    /\ fileAtStart = file
    /\ seenAtStart = seen
    /\ reported = {}
    /\ saveFailed = FALSE
    /\ prev = NoPrev
    /\ stoppedAt = "none"
    /\ fileAccess = <<>>
    /\ op = "create"
    /\ arg = "None"
    /\ ret = "None"

\* Deduplicator.group, lines 90-98: one iteration of the loop, for the next
\* article of the input; the items made of the shorter input are dropped
DoGroupArticle ==
    /\ Len(relevant) < MaxGroupInput
    /\ \E c \in GroupPool :
        /\ relevant' = Append(relevant, c)
        /\ article_groups' = GroupAdd(article_groups, c)
        /\ op' = "group"
        /\ arg' = c
        /\ ret' = "None"
    /\ unified' = <<>>
    /\ UNCHANGED groupFrame

\* group.primary, for one of the groups built so far
DoPrimary ==
    /\ \E k \in DOMAIN article_groups :
        /\ op' = "primary"
        /\ arg' = k
        /\ ret' = Primary(article_groups[k])
    /\ UNCHANGED <<relevant, article_groups, unified, groupFrame>>

\* Deduplicator._group_to_unified, for one of the groups built so far
DoGroupToUnified ==
    /\ \E k \in DOMAIN article_groups :
        /\ op' = "group_to_unified"
        /\ arg' = k
        /\ ret' = GroupToUnified(article_groups[k])
    /\ UNCHANGED <<relevant, article_groups, unified, groupFrame>>

\* Deduplicator.deduplicate on the articles handed over so far
DoDeduplicate ==
    /\ op' = "deduplicate"
    /\ arg' = relevant
    /\ ret' = "None"
    /\ unified' = Deduplicate(relevant)
    /\ UNCHANGED <<relevant, article_groups, groupFrame>>

\* mutant of DoGroupAgain: the groups of the first application are still in
\* the deduplicator when the second starts
DoGroupAgainLeaking ==
    /\ op' = "group_again"
    /\ arg' = relevant
    /\ ret' = GroupFrom(article_groups, relevant)
    /\ UNCHANGED <<relevant, article_groups, unified, groupFrame>>

\* Deduplicator.group applied once more, by the same deduplicator, to the
\* whole input it has grouped article by article
DoGroupAgain ==
    /\ op' = "group_again"
    /\ arg' = relevant
    /\ ret' = Group(relevant)
    /\ UNCHANGED <<relevant, article_groups, unified, groupFrame>>

NextGroup ==
    \/ DoGroupArticle
    \/ DoPrimary
    \/ DoGroupToUnified
    \/ DoDeduplicate
    \/ DoGroupAgain

SpecGroup == InitGroup /\ [][NextGroup]_vars

-----------------------------------------------------------------------------
(* Properties of the deduplicator, checked under SpecGroup *)

\* C19: for every non-empty group, primary is a member whose excerpt length
\* is the maximum over all members, and among the members with that maximum
\* length it is one with the earliest date (for excerpts of length 5, 40 and
\* 40 with the 40-length items dated the 14th and the 15th, the primary is
\* the item of the 14th).
C19_PrimarySelection ==
    op = "primary"
        => LET g == article_groups[arg] IN
           /\ \E i \in DOMAIN g : g[i] = ret
           /\ \A i \in DOMAIN g : Len(g[i].article.snippet) <= Len(ret.article.snippet)
           /\ \A i \in DOMAIN g :
                 Len(g[i].article.snippet) = Len(ret.article.snippet)
                     => ret.article.date <= g[i].article.date

\* the group of the example: excerpts of 5, 40 and 40 characters, the
\* 40-character ones dated the 15th and the 14th; primary is the one of the 14th
C19_Witness ==
    /\ op = "primary"
    /\ Len(article_groups[arg]) = 3
    /\ Len(article_groups[arg][1].article.snippet) = 5
    /\ Len(article_groups[arg][2].article.snippet) = 40
    /\ article_groups[arg][2].article.date = 15
    /\ Len(article_groups[arg][3].article.snippet) = 40
    /\ article_groups[arg][3].article.date = 14
    /\ ret = article_groups[arg][3]

\* C20: the UnifiedItem of a group takes headline, summary, date, category
\* and sub-category from the group's primary, all from that one member, and
\* its sources are one (source name, locator) entry per member, in insertion
\* order, entries with the same locator all kept.
C20_Unification ==
    op = "group_to_unified"
        => LET g == article_groups[arg]
               p == Primary(g)
           IN  /\ ret.headline = p.article.title
               /\ ret.summary = p.article.snippet
               /\ ret.date = p.article.date
               /\ ret.category = p.classification.category
               /\ ret.sub_category = p.classification.sub_category
               /\ Len(ret.sources) = Len(g)
               /\ \A i \in DOMAIN g :
                     /\ ret.sources[i].source_name = g[i].article.source_name
                     /\ ret.sources[i].url = g[i].article.url

\* a group of three whose primary is not its first member and two of whose
\* members share a locator was unified: three source entries, two alike in locator
C20_Witness ==
    /\ op = "group_to_unified"
    /\ Len(ret.sources) = 3
    /\ ret.sources[2].url = ret.sources[3].url
    /\ ret.sources[2].source_name # ret.sources[3].source_name
    /\ ret.headline # article_groups[arg][1].article.title

\* C27: given three relevant items in this order, A with a 300-character
\* excerpt, B with a 50-character excerpt and a title similar to A's at
\* threshold 0.7, and C with a title similar to neither, deduplicate returns
\* exactly two UnifiedItems: the first with the two sources A then B and A's
\* headline, the second with the single source C.
C27_EndToEnd ==
    (/\ op = "deduplicate"
     /\ Len(arg) = 3
     /\ Len(arg[1].article.snippet) = 300
     /\ Len(arg[2].article.snippet) = 50
     /\ IsSimilar(arg[2], arg[1])
     /\ ~IsSimilar(arg[3], arg[1])
     /\ ~IsSimilar(arg[3], arg[2]))
        => /\ Len(unified) = 2
           /\ unified[1].sources = <<SourceReference(arg[1].article), SourceReference(arg[2].article)>>
           /\ unified[1].headline = arg[1].article.title
           /\ unified[2].sources = <<SourceReference(arg[3].article)>>

\* the scenario was run: excerpts of 300, 50 and 5 characters, the third
\* title unrelated, two items returned
C27_Witness ==
    /\ op = "deduplicate"
    /\ Len(arg) = 3
    /\ Len(arg[1].article.snippet) = 300
    /\ Len(arg[2].article.snippet) = 50
    /\ arg[1].article.title # arg[2].article.title
    /\ arg[3].article.title = <<"c", "o", "u", "r", "t">>
    /\ Len(unified) = 2
    /\ Len(unified[1].sources) = 2
    /\ unified[1].headline = <<"r", "a", "i", "d">>

CurrentPrimary(g) ==
    CHOOSE i \in DOMAIN g :
        \A j \in DOMAIN g \ {i} :
            \/ Len(g[i].article.snippet) > Len(g[j].article.snippet)
            \/ /\ Len(g[i].article.snippet) = Len(g[j].article.snippet)
               /\ g[i].article.date < g[j].article.date
            \/ /\ Len(g[i].article.snippet) = Len(g[j].article.snippet)
               /\ g[i].article.date = g[j].article.date
               /\ i < j

\* C33: group() handles the items in input order; each item is appended to
\* the first group, in group creation order, whose primary, computed over
\* the members that group has at that moment, has title similarity at or
\* above the threshold with the item; if no group matches, the item opens a
\* new singleton group at the end of the group list.
C33_GroupingPass ==
    [][relevant' # relevant
        => LET c == arg'
               matching == {k \in DOMAIN article_groups :
                               IsSimilar(c, article_groups[k][CurrentPrimary(article_groups[k])])}
           IN  /\ relevant' = Append(relevant, c)
               /\ matching = {}
                    => article_groups' = Append(article_groups, <<c>>)
               /\ matching # {}
                    => /\ Len(article_groups') = Len(article_groups)
                       /\ \A k \in DOMAIN article_groups :
                             article_groups'[k] =
                                 IF k \in matching /\ \A l \in matching : k <= l
                                 THEN Append(article_groups[k], c)
                                 ELSE article_groups[k]]_vars

\* the third item joined the only group although its title is not within
\* the threshold of the member the group was created with: the second
\* member, with the longer excerpt, had become the primary
C33_Witness ==
    /\ op = "group"
    /\ Len(relevant) = 3
    /\ Len(article_groups) = 1
    /\ article_groups[1][3] = arg
    /\ ~IsSimilar(arg, article_groups[1][1])
    /\ IsSimilar(arg, article_groups[1][2])
    /\ Len(article_groups[1][2].article.snippet) > Len(article_groups[1][1].article.snippet)

\* C34: group() on an empty input returns an empty list without error, and
\* on a single item returns exactly one group whose only member is that item.
C34_GroupEdgeCases ==
    op = "group_again"
        => /\ arg = <<>> => ret = <<>>
           /\ Len(arg) = 1 => (Len(ret) = 1 /\ ret[1] = <<arg[1]>>)

\* group() was applied to a single article and returned one group of one
C34_Witness ==
    /\ op = "group_again"
    /\ Len(arg) = 1
    /\ Len(ret) = 1
    /\ Len(ret[1]) = 1
    /\ ret[1][1] \in GroupPool

\* the members of a group that have the maximum excerpt length and, among
\* those, the earliest date
FullTies(g) ==
    {i \in DOMAIN g :
        \A j \in DOMAIN g :
            \/ Len(g[j].article.snippet) < Len(g[i].article.snippet)
            \/ /\ Len(g[j].article.snippet) = Len(g[i].article.snippet)
               /\ g[i].article.date <= g[j].article.date}

\* C39: when several members of a group have both the maximum excerpt
\* length and the same, earliest date, primary is the one inserted first.
C39_PrimaryFullTie ==
    op = "primary"
        => LET g == article_groups[arg]
           IN  /\ FullTies(g) # {}
               /\ \A i \in FullTies(g) : (\A j \in FullTies(g) : i <= j) => ret = g[i]

\* a group holds two different members with the longest excerpt and the
\* same date, and primary is the one inserted first
C39_Witness ==
    /\ op = "primary"
    /\ \E i, j \in FullTies(article_groups[arg]) :
          /\ i < j
          /\ article_groups[arg][i] # article_groups[arg][j]
          /\ ret = article_groups[arg][i]
          /\ \A k \in FullTies(article_groups[arg]) : i <= k

-----------------------------------------------------------------------------
(* The classifier driven response by response: classifier/relevance.py *)

\* the values a response object can carry under each key: the values of the
\* enumeration, a string outside it, or no such key
CategoryStrings == Categories \cup {"unknown", Absent}

SubCategoryStrings == SubCategories \cup {"unknown", Absent}

ConfidenceStrings == {"high", "low", "unknown", Absent}

RelevantStrings == {"true", "false", Absent}

Fences == {"none", "closed", "open", "inline"}

\* the responses whose first block is a text
TextResponses ==
    {Response("ok", "text", f, "object", rel, cat, sub, conf) :
        f \in Fences, rel \in RelevantStrings, cat \in CategoryStrings,
        sub \in SubCategoryStrings, conf \in ConfidenceStrings}
    \cup {Response("ok", "text", f, b, Absent, Absent, Absent, Absent) :
            f \in Fences, b \in {"empty", "garbage", "array"}}

\* every outcome of messages.create the classifier is driven with
ClassifierResponses ==
    TextResponses
    \cup {Response(c, "none", "none", "empty", Absent, Absent, Absent, Absent) : c \in {"api_error", "error"}}
    \cup {Response("ok", c, "none", "empty", Absent, Absent, Absent, Absent) : c \in {"none", "nontext"}}

\* a Classifier just created: like the deduplicator, it holds no state of its own
InitClassify == InitGroup

classifyFrame == <<pipelineVars, now, file, seen, loadRaised, lastSave>>

\* Classifier.classify on one outcome of the API call
DoClassify ==
    /\ op = "create"
    /\ \E r \in ClassifierResponses :
        /\ op' = "classify"
        /\ arg' = r
        /\ ret' = Classify(r)
    /\ UNCHANGED classifyFrame

\* Classifier._parse_response on one response text
DoParseResponse ==
    /\ op = "create"
    /\ \E r \in TextResponses :
        /\ op' = "parse_response"
        /\ arg' = r
        /\ ret' = ParseResponse(r)
    /\ UNCHANGED classifyFrame

NextClassify ==
    \/ DoClassify
    \/ DoParseResponse

SpecClassify == InitClassify /\ [][NextClassify]_vars

-----------------------------------------------------------------------------
(* Properties of the classifier, checked under SpecClassify *)

\* C22: every Classification the classifier produces has no sub-category or
\* a sub-category from the list of its own category; a sub-category from
\* another category's list is rejected or ignored, and nothing is raised.
C22_SubCategoryScoped ==
    op \in {"classify", "parse_response"}
        => /\ ~ret.raised
           /\ \/ ret.value.sub_category = NoSub
              \/ ret.value.sub_category \in ValidSubs(ret.value.category)

\* the response text carries a JSON object once its code fence is removed
ParsesAsObject(r) == r.body = "object" /\ r.fence # "inline"

\* C23: for each value v of the SubCategory enumeration, parsing a response
\* with category enforcement and sub_category v yields a Classification
\* whose sub-category is v.
C23_EverySubCategoryAccepted ==
    (/\ op = "parse_response"
     /\ ParsesAsObject(arg)
     /\ arg.category = "enforcement"
     /\ arg.sub_category \in SubCategories)
        => /\ ~ret.raised
           /\ ret.value.category = "enforcement"
           /\ ret.value.sub_category = arg.sub_category

\* a response with category enforcement and a sub-category of the
\* trafficking list was parsed, and the sub-category was kept
C23_Witness ==
    /\ op = "parse_response"
    /\ ParsesAsObject(arg)
    /\ arg.category = "enforcement"
    /\ arg.sub_category = "rescue"
    /\ ret.value.sub_category = "rescue"

\* C24: text that is not valid JSON parses to relevant=false, category
\* not_relevant, no sub-category, confidence low; a response with an unknown
\* category string parses to category not_relevant; a response with an
\* unknown sub-category string parses to no sub-category while its category
\* is kept.
C24_ParseFallbacks ==
    op = "parse_response"
        => /\ (arg.body \in {"empty", "garbage"} \/ (arg.fence = "inline" /\ arg.body # "array"))
                => /\ ~ret.raised
                   /\ ret.value = ClassificationResult(FALSE, "not_relevant", NoSub, "low")
           /\ (ParsesAsObject(arg) /\ arg.category = "unknown")
                => (~ret.raised /\ ret.value.category = "not_relevant")
           /\ (ParsesAsObject(arg) /\ arg.sub_category = "unknown")
                => /\ ~ret.raised
                   /\ ret.value.sub_category = NoSub
                   /\ arg.category \in Categories => ret.value.category = arg.category

\* an object with a known category and an unknown sub-category was parsed:
\* the category was kept and the sub-category dropped
C24_Witness ==
    /\ op = "parse_response"
    /\ ParsesAsObject(arg)
    /\ arg.category = "brothel"
    /\ arg.sub_category = "unknown"
    /\ ret.value.category = "brothel"
    /\ ret.value.sub_category = NoSub

\* the items a run returns when its only unseen article got this
\* classification: classify_articles keeps it if flagged relevant,
\* deduplicate turns the kept ones into items
EmittedFor(classification) ==
    Deduplicate(KeepRelevant(<<ClassifiedArticle(ArticleA1, classification)>>))

\* C36: for every classifier response, every UnifiedItem a run returns has
\* a category other than not_relevant.
C36_NoNotRelevantEmitted ==
    (op = "classify" /\ ~ret.raised)
        => \A i \in DOMAIN EmittedFor(ret.value) : EmittedFor(ret.value)[i].category # "not_relevant"

-----------------------------------------------------------------------------
(* Title similarity driven pair by pair: dedup/similarity.py *)

\* titles handed to _is_similar: among them a pair whose ratio is exactly
\* 7/10 (14/20) and pairs just below it (16/23)
TitlePool ==
    {<<>>,
     <<"r", "a", "i", "d">>,
     <<"R", "a", "i", "d">>,
     <<"r", "a", "i", "d", "s">>,
     <<"c", "o", "u", "r", "t">>,
     <<"a", "b", "c", "d", "e", "f", "g", "h", "i", "j">>,
     <<"a", "b", "c", "d", "e", "f", "g", "x", "y", "z">>,
     <<"a", "b", "c", "d", "e", "f", "g", "h", "x", "x", "x", "x", "x">>}

\* a relevant article with the given title
Titled(url, title) == Relevant(url, title, 5, 14, "ynet", "brothel", "closure")

\* Deduplicator._is_similar on two articles with the titles drawn
DoIsSimilar ==
    /\ op = "create"
    /\ \E t1 \in TitlePool, t2 \in TitlePool :
        /\ op' = "is_similar"
        /\ arg' = <<t1, t2>>
        /\ ret' = IsSimilar(Titled("g1", t1), Titled("g2", t2))
    /\ UNCHANGED classifyFrame

\* Deduplicator.group on two articles with the titles drawn
DoGroupPair ==
    /\ op = "create"
    /\ \E t1 \in TitlePool, t2 \in TitlePool :
        /\ op' = "group"
        /\ arg' = <<t1, t2>>
        /\ ret' = Group(<<Titled("g1", t1), Titled("g2", t2)>>)
    /\ UNCHANGED classifyFrame

NextSimilar ==
    \/ DoIsSimilar
    \/ DoGroupPair

SpecSimilar == InitGroup /\ [][NextSimilar]_vars

-----------------------------------------------------------------------------
(* Properties of the title similarity, checked under SpecSimilar *)

\* twice the number of matching characters of the lowercased titles of a
\* pair, and the sum of their lengths: the ratio is the first over the second
TwiceMatches(pair) ==
    2 * MatchCount(Lower(pair[1]), Lower(pair[2]), 1, Len(pair[1]) + 1, 1, Len(pair[2]) + 1)

TotalLength(pair) == Len(pair[1]) + Len(pair[2])

\* C26: two items whose title similarity ratio equals the threshold exactly
\* are similar and grouped together; two items whose ratio is below the
\* threshold by any amount are not.
C26_ThresholdBoundary ==
    /\ (op = "is_similar" /\ TotalLength(arg) > 0)
         => /\ TwiceMatches(arg) * ThresholdDen = ThresholdNum * TotalLength(arg) => ret = TRUE
            /\ TwiceMatches(arg) * ThresholdDen < ThresholdNum * TotalLength(arg) => ret = FALSE
    /\ (op = "group" /\ TotalLength(arg) > 0)
         => /\ TwiceMatches(arg) * ThresholdDen = ThresholdNum * TotalLength(arg) => Len(ret) = 1
            /\ TwiceMatches(arg) * ThresholdDen < ThresholdNum * TotalLength(arg) => Len(ret) = 2

\* two articles whose titles have ratio 14/20 were grouped into one group
C26_Witness ==
    /\ op = "group"
    /\ TotalLength(arg) = 20
    /\ TwiceMatches(arg) = 14
    /\ Len(ret) = 1
    /\ Len(ret[1]) = 2

-----------------------------------------------------------------------------
(* The source adapters driven request by request: sources/rss.py, sources/maariv.py *)

MaxKeywords == 2

\* the request failed with an httpx.HTTPError: no connection, a timeout, or
\* a status of 400 and above turned into an error by raise_for_status
HttpError == [kind |-> "http_error", items |-> <<>>]

\* the request was answered with a page whose entries parse into these articles
PageOf(items) == [kind |-> "ok", items |-> items]

\* the request was answered with a page an entry of which makes the
\* construction of its RawArticle raise (a link that is no valid URL)
PageInvalid == [kind |-> "ok_invalid", items |-> <<>>]

HttpResponses ==
    {HttpError, PageInvalid, PageOf(<<>>), PageOf(<<ArticleA1>>), PageOf(<<ArticleA2, ArticleA1>>)}

\* the answers to the keyword searches of one fetch, one per keyword
SearchResponses == UNION {[1..n -> HttpResponses] : n \in 0..MaxKeywords}

\* mutant of RssFetch: the failure of the request reaches the caller
RssFetchPropagates(resp) ==
    IF resp.kind \in {"http_error", "ok_invalid"} THEN FetchRaises ELSE FetchReturns(resp.items)

\* RSSSource.fetch: _fetch_feed gives None on an HTTPError and fetch then
\* returns []; otherwise every entry that parses is appended
RssFetch(resp) ==
    IF resp.kind = "http_error" THEN FetchReturns(<<>>)
    ELSE IF resp.kind = "ok_invalid" THEN FetchRaises
    ELSE FetchReturns(resp.items)

\* MaarivScraper.fetch, lines 77-84: the first article of each locator
RECURSIVE UniqueByUrl(_, _)
UniqueByUrl(articles, seen_urls) ==
    IF articles = <<>> THEN <<>>
    ELSE IF Head(articles).url \in seen_urls THEN UniqueByUrl(Tail(articles), seen_urls)
    ELSE <<Head(articles)>> \o UniqueByUrl(Tail(articles), seen_urls \cup {Head(articles).url})

\* MaarivScraper.fetch: _scrape_section and _search_keyword give [] on an
\* HTTPError; the articles of the section page come first, then those of
\* the searches in keyword order
MaarivFetch(section, searches) ==
    IF section.kind = "ok_invalid" \/ \E i \in DOMAIN searches : searches[i].kind = "ok_invalid"
    THEN FetchRaises
    ELSE FetchReturns(UniqueByUrl(section.items \o Flatten([i \in DOMAIN searches |-> searches[i].items]),
                                  {}))

\* RSSSource.fetch with the answer drawn
DoRssFetch ==
    /\ op = "create"
    /\ \E resp \in HttpResponses :
        /\ op' = "rss_fetch"
        /\ arg' = resp
        /\ ret' = RssFetch(resp)
    /\ UNCHANGED classifyFrame

\* MaarivScraper.fetch with the answers drawn
DoMaarivFetch ==
    /\ op = "create"
    /\ \E section \in HttpResponses, searches \in SearchResponses :
        /\ op' = "maariv_fetch"
        /\ arg' = [section |-> section, searches |-> searches]
        /\ ret' = MaarivFetch(section, searches)
    /\ UNCHANGED classifyFrame

MaxSources == 2

\* the entries config.sources is drawn from: RSS entries with and without
\* URL, scraper entries with a known and an unknown name, enabled or not
SourceEntries ==
    [name : {"ynet", "walla"}, type : {"rss"}, url : {"", "https://feed"}, enabled : BOOLEAN]
    \cup [name : {"mako", "maariv", "haaretz"}, type : {"scraper"}, url : {""}, enabled : BOOLEAN]

SourceConfigs == UNION {[1..n -> SourceEntries] : n \in 0..MaxSources}

\* create_sources on the configuration drawn; no fetch made yet
DoCreateSources ==
    /\ op = "create"
    /\ \E cfgs \in SourceConfigs :
        /\ op' = "create_sources"
        /\ arg' = cfgs
        /\ ret' = [sources |-> CreateSources(cfgs), fetched |-> <<>>]
    /\ UNCHANGED classifyFrame

\* fetch_all_sources, lines 84-91: one iteration of the loop over the
\* sources created, the fetch of the next one is invoked
DoFetchSource ==
    /\ op \in {"create_sources", "fetch_source"}
    /\ Len(ret.fetched) < Len(ret.sources)
    /\ op' = "fetch_source"
    /\ ret' = [ret EXCEPT !.fetched = Append(@, ret.sources[Len(@) + 1])]
    /\ UNCHANGED <<arg, classifyFrame>>

NextSource ==
    \/ DoRssFetch
    \/ DoMaarivFetch
    \/ DoCreateSources
    \/ DoFetchSource

SpecSource == InitGroup /\ [][NextSource]_vars

-----------------------------------------------------------------------------
(* Properties of the source adapters, checked under SpecSource *)

\* C31: when the HTTP request of an RSS source fails, or when every HTTP
\* request of the Maariv scraper (section page and keyword searches) fails,
\* fetch returns an empty list and raises nothing.
C31_SourcesFailEmpty ==
    /\ (op = "rss_fetch" /\ arg.kind = "http_error")
         => (~ret.raises /\ ret.articles = <<>>)
    /\ (/\ op = "maariv_fetch"
        /\ arg.section.kind = "http_error"
        /\ \A i \in DOMAIN arg.searches : arg.searches[i].kind = "http_error")
         => (~ret.raises /\ ret.articles = <<>>)

\* the section page and both keyword searches of the Maariv scraper failed
\* and fetch returned the empty list
C31_Witness ==
    /\ op = "maariv_fetch"
    /\ arg.section = HttpError
    /\ arg.searches = <<HttpError, HttpError>>
    /\ ret = FetchReturns(<<>>)

\* the entries of a configuration for which the claim says a source is made
Usable(cfgs) ==
    {i \in DOMAIN cfgs :
        /\ cfgs[i].enabled
        /\ \/ cfgs[i].type = "rss" /\ cfgs[i].url # ""
           \/ cfgs[i].type = "scraper" /\ cfgs[i].name \in {"mako", "maariv"}}

\* C32: create_sources returns, in configuration order, one source for each
\* enabled entry that is an RSS entry with a URL or a scraper entry named
\* mako or maariv, and none for a disabled entry, an RSS entry without URL
\* or an unknown scraper name; the fetches invoked afterwards are those of
\* the sources created, in order, so never that of a disabled entry.
C32_OnlyEnabledSources ==
    op \in {"create_sources", "fetch_source"}
        => /\ IsRestriction(ret.sources, [i \in DOMAIN arg |-> arg[i].name], Usable(arg))
           /\ Len(ret.fetched) <= Len(ret.sources)
           /\ ret.fetched = SubSeq(ret.sources, 1, Len(ret.fetched))
           /\ \A i \in DOMAIN arg :
                 ~arg[i].enabled => Len(ret.sources) <= Cardinality({j \in DOMAIN arg : j # i})

\* a configuration with a disabled entry ahead of an enabled one: one
\* source was created, for the enabled entry, and its fetch was invoked
C32_Witness ==
    /\ op = "fetch_source"
    /\ Len(arg) = 2
    /\ ~arg[1].enabled
    /\ arg[1].type = "rss"
    /\ arg[1].url # ""
    /\ arg[2].enabled
    /\ ret.sources = <<arg[2].name>>
    /\ ret.fetched = ret.sources
    /\ arg[1].name # arg[2].name

====
